---- MODULE Spec2Model ----
(***************************************************************************)
(* Model of src/src/main.cpp: the oscillometric blood pressure and pulse    *)
(* monitor (Maximum Amplitude Algorithm).                                   *)
(*                                                                         *)
(* Numbers.  Every double that holds a pressure is kept as an exact        *)
(* integer in units of 1/(OUTPUT_MAX - OUTPUT_MIN) mmHg, so that            *)
(*   pressure_value = scaler * (pressure_data - caliberated_MIN_OUT)        *)
(* is the integer (PRESSURE_MAX - PRESSURE_MIN) * (pressure_data - offset). *)
(* That integer is a multiple of 300, hence divisible by every possible     *)
(* total_count in 1..5: the mean of the window is exact.  The quiet NaN     *)
(* that 0.0 / 0.0 produces is the value NaN; every comparison with it is    *)
(* false, as in IEEE 754.  Times are integer milliseconds (read_ms()).      *)
(***************************************************************************)
EXTENDS Integers, Sequences, FiniteSets, TLC

----------------------------------------------------------------------------
(* Program constants (main.cpp lines 20-32).                               *)

OUTPUT_MAX == 3774873
OUTPUT_MIN == 419430
PRESSURE_MAX == 300
PRESSURE_MIN == 0
MIN_OMWE_THRESH == 70
MAX_OMWE_THRESH == 160
\* MAP_ERROR_THRESH is 0.5: kept in tenths of a mmHg.
MAP_ERROR_THRESH_TENTHS == 5
\* The characteristic ratios 0.45, 0.73, 0.69, 0.83: kept in hundredths.
SYSTOLIC_LOWER_CHAR_RATIO == 45
SYSTOLIC_UPPER_CHAR_RATIO == 73
DIASTOLIC_LOWER_CHAR_RATIO == 69
DIASTOLIC_UPPER_CHAR_RATIO == 83
LOWER_PULSE_RANGE == 35
UPPER_PULSE_RANGE == 150
\* buffer_queue[5] and the "% 5" of line 340.
QUEUE_SIZE == 5

----------------------------------------------------------------------------
(* Bounds of the model.                                                    *)

\* Length of the three OMWE arrays (1000 in the source, lines 60-62).
OmweCapacity == 3
\* Number of readings auto_caliberate() takes (100 in the source, line 238).
CalibrationSamples == 2
\* Cap on the sample counter "iteration".
MaxSamples == 9

\* Raw 24-bit sensor words the SPI transaction can deliver during the
\* session: the resting cuff (0.0 mmHg once calibrated), about 1 mmHg,
\* 100 mmHg and about 190 mmHg.
SensorData == {OUTPUT_MIN, OUTPUT_MIN + 11185, OUTPUT_MIN + 1118481,
               OUTPUT_MIN + 2125114}
\* Raw sensor words delivered while the cuff is at rest (calibration).
CalibData == {OUTPUT_MIN}
\* Milliseconds that pass between the return of measure_pressure() and its
\* next call in the loop of main(): wait_us(200000) plus the time the loop
\* body takes.
LoopWaits == {240}
\* wait_us(10000) inside measure_pressure(), in milliseconds.
SENSOR_WAIT_MS == 10

----------------------------------------------------------------------------
(* Arithmetic on the modelled doubles.                                     *)

\* One mmHg, in model units.
OUTPUT_SPAN == OUTPUT_MAX - OUTPUT_MIN

\* The double t (a whole number of mmHg) in model units.
mmHg(t) == t * OUTPUT_SPAN

\* 0.0 / 0.0.
NaN == -2000000000

FLt(a, b) == a # NaN /\ b # NaN /\ a < b

FGt(a, b) == a # NaN /\ b # NaN /\ a > b

FSub(a, b) == IF a = NaN \/ b = NaN THEN NaN ELSE a - b

\* abs() on a double.
FAbs(a) == IF a = NaN THEN NaN ELSE IF a < 0 THEN -a ELSE a

RECURSIVE SumOver(_, _)
SumOver(f, S) ==
    IF S = {} THEN 0
    ELSE LET i == CHOOSE j \in S : TRUE IN f[i] + SumOver(f, S \ {i})

----------------------------------------------------------------------------
(* The Sample Normalizer: calculate_normalized_pressure(), lines 252-263.  *)

QueueIndex == 0 .. (QUEUE_SIZE - 1)

\* The slots the loop of line 255 adds up: those that are not 0.0.
NonZeroSlots(q) == {i \in QueueIndex : q[i] # 0}

\* Variant of calculate_normalized_pressure: the sum of the non-zero slots
\* is divided by the number of slots, empty or not.
calculate_normalized_pressure_AllSlots(q) ==
    SumOver([i \in NonZeroSlots(q) |-> q[i] \div QUEUE_SIZE], NonZeroSlots(q))

\* total_value / total_count.  Each slot is a multiple of 300, so dividing
\* slot by slot is the exact quotient of the sum; a zero count gives 0.0/0.0.
calculate_normalized_pressure(q) ==
    LET total_count == Cardinality(NonZeroSlots(q))
    IN  IF total_count = 0
        THEN NaN
        ELSE SumOver([i \in NonZeroSlots(q) |-> q[i] \div total_count],
                     NonZeroSlots(q))

\* Line 340: buffer_queue[iteration++ % 5] = pressure_value.
WriteQueue(q, it, pv) == [q EXCEPT ![it % QUEUE_SIZE] = pv]

\* Line 315: scaler * (pressure_data - caliberated_MIN_OUT).
PressureOf(data, offset) == (PRESSURE_MAX - PRESSURE_MIN) * (data - offset)

\* Variant of NormalizedForSample: the new sample is written into the
\* window before the mean is taken.
NormalizedForSample_AfterWrite(q, it, pv) ==
    calculate_normalized_pressure(WriteQueue(q, it, pv))

\* Line 317: the normalized pressure measure_pressure() works with is
\* computed from the window as it is before line 340 writes the new sample.
NormalizedForSample(q, it, pv) == calculate_normalized_pressure(q)

\* Line 223: the normalized pressure MAP_calculator() works with is computed
\* after line 340 has written the new sample.
NormalizedForMAP(q, it, pv) == calculate_normalized_pressure(WriteQueue(q, it, pv))

----------------------------------------------------------------------------
(* The conditions of measure_pressure(), lines 322-348.                    *)

\* Variant of RecordGate: the recording flag is not looked at.
RecordGate_AnyFlag(active, cp, np) == FLt(FAbs(FSub(cp, np)), mmHg(12))

\* Variant of RecordGate: a reading outside the band of line 324 is not
\* viable either.
RecordGate_InBand(active, cp, np) ==
    /\ active
    /\ FLt(FAbs(FSub(cp, np)), mmHg(12))
    /\ FGt(np, mmHg(MIN_OMWE_THRESH))
    /\ FLt(np, mmHg(MAX_OMWE_THRESH))

\* Line 322: the button was pressed and the reading is viable.
RecordGate(active, cp, np) == active /\ FLt(FAbs(FSub(cp, np)), mmHg(12))

\* Variant of InOmweBand: the test of line 324 is left out.
InOmweBand_Unchecked(np) == TRUE

\* Line 324.
InOmweBand(np) == FGt(np, mmHg(MIN_OMWE_THRESH)) /\ FLt(np, mmHg(MAX_OMWE_THRESH))

\* Variant of PassedMaximum: an amplitude equal to the previous one counts.
PassedMaximum_OrEqual(diff, previous) == diff <= previous

\* Line 325: the graph passed a maximum.
PassedMaximum(diff, previous) == diff < previous

\* Variant of StoreTimestamp: a maximum 500 ms after the last stored one is
\* given a timestamp as well.
StoreTimestamp_OrEqual(now, times, tp) ==
    IF tp > 0 THEN now - times[tp - 1] >= 500 ELSE TRUE

\* Variant of StoreTimestamp: every maximum is given a timestamp.
StoreTimestamp_Always(now, times, tp) == TRUE

\* Lines 326-333: the first timestamp is always stored, a later one only
\* when it is more than 500 ms after the last stored one.
StoreTimestamp(now, times, tp) == IF tp > 0 THEN now - times[tp - 1] > 500 ELSE TRUE

\* Variant of NewMAP: an amplitude equal to the best one replaces it.
NewMAP_OrEqual(diff, peak, np) ==
    diff >= peak /\ FGt(np, mmHg(MIN_OMWE_THRESH)) /\ FLt(np, mmHg(110))

\* Variant of NewMAP: the normalized pressure is not looked at.
NewMAP_AnyPressure(diff, peak, np) == diff > peak

\* Line 224.
NewMAP(diff, peak, np) ==
    diff > peak /\ FGt(np, mmHg(MIN_OMWE_THRESH)) /\ FLt(np, mmHg(110))

\* Line 342.
OverPressure(np) == FGt(np, mmHg(200))

\* Variant of EndCondition: the flag is not looked at.
EndCondition_AnyFlag(led, np) == FLt(np, mmHg(5))

\* Line 346.
EndCondition(led, np) == led /\ FLt(np, mmHg(5))

\* Variant of LoopContinues: the loop of line 97 never ends.
LoopContinues_Always(ended) == TRUE

\* Line 97.
LoopContinues(ended) == ~ended

\* Variant of GradientArmed: the monitor evaluates from the first sample on.
GradientArmed_Always(it) == TRUE

\* Lines 271-273.
GradientArmed(it) == it > 5

\* Variant of RateTooHigh: a fast rise of the pressure warns as well.
RateTooHigh_Abs(rate) == FGt(FAbs(rate), mmHg(4))

\* Line 273.
RateTooHigh(rate) == FGt(rate, mmHg(4))

----------------------------------------------------------------------------
(* The Systolic/Diastolic Estimator:                                       *)
(* Systolic_and_diastolic_bp_calculator(), lines 169-215.                  *)
(* Every amplitude is a multiple of 5 model units, and the two targets     *)
(* (0.45 p + 0.73 p) / 2 and (0.69 p + 0.83 p) / 2 are multiples of 1/200   *)
(* of p: the ordinate errors are kept exactly, multiplied by 40.           *)

ERROR_SCALE == 40

\* abs(ordinate - (lower * peak + upper * peak) / 2.0), times ERROR_SCALE.
OrdinateError(ordinate, lower, upper, peak) ==
    FAbs(ERROR_SCALE * ordinate - (lower + upper) * (peak \div 5))

\* Lines 173-174: MAP_ERROR_THRESH + 1, times ERROR_SCALE.
InitialOrdinateError == 4 * (MAP_ERROR_THRESH_TENTHS + 10) * OUTPUT_SPAN

\* Line 187.
InSystolicBand(x) == FGt(x, mmHg(100)) /\ FLt(x, mmHg(200))

\* Line 193.
InDiastolicBand(x) == FGt(x, mmHg(50)) /\ FLt(x, mmHg(90))

\* Variant of BetterCandidate: an entry as close as the best one replaces it.
BetterCandidate_OrEqual(err, best, inBand) == err <= best /\ inBand

\* Lines 186-187 and 192-193: entry i replaces the best one found so far.
BetterCandidate(err, best, inBand) == err < best /\ inBand

\* The loop of lines 185-198 over entries 0 .. n-1.
RECURSIVE ScanEnvelope(_, _, _, _)
ScanEnvelope(xs, ys, peak, n) ==
    IF n = 0
    THEN [systolic_buffer |-> -1, diastolic_buffer |-> -1,
          min_systolic_ordinate_error |-> InitialOrdinateError,
          min_diastolic_ordinate_error |-> InitialOrdinateError]
    ELSE LET s == ScanEnvelope(xs, ys, peak, n - 1)
             i == n - 1
             se == OrdinateError(ys[i], SYSTOLIC_LOWER_CHAR_RATIO,
                                 SYSTOLIC_UPPER_CHAR_RATIO, peak)
             de == OrdinateError(ys[i], DIASTOLIC_LOWER_CHAR_RATIO,
                                 DIASTOLIC_UPPER_CHAR_RATIO, peak)
             sys == BetterCandidate(se, s.min_systolic_ordinate_error,
                                    InSystolicBand(xs[i]))
             dia == BetterCandidate(de, s.min_diastolic_ordinate_error,
                                    InDiastolicBand(xs[i]))
         IN  [systolic_buffer |-> IF sys THEN i ELSE s.systolic_buffer,
              diastolic_buffer |-> IF dia THEN i ELSE s.diastolic_buffer,
              min_systolic_ordinate_error |->
                  IF sys THEN se ELSE s.min_systolic_ordinate_error,
              min_diastolic_ordinate_error |->
                  IF dia THEN de ELSE s.min_diastolic_ordinate_error]

\* Line 201: the value found is not reliable.
EstimateFailed(sb, db) == sb < 0 \/ db < 0

\* Variant of Systolic_and_diastolic_bp_calculator: each pressure is set to
\* -1 only when its own search failed.
Systolic_and_diastolic_bp_calculator_PerField(xs, ys, peak, n) ==
    LET s == ScanEnvelope(xs, ys, peak, n)
    IN  [systolic_bloodpressure |->
             IF s.systolic_buffer < 0 THEN mmHg(-1) ELSE xs[s.systolic_buffer],
         diastolic_bloodpressure |->
             IF s.diastolic_buffer < 0 THEN mmHg(-1) ELSE xs[s.diastolic_buffer],
         systolic_char_ratio |-> s.min_systolic_ordinate_error,
         diastolic_char_ratio |-> s.min_diastolic_ordinate_error]

\* Lines 200-214.
Systolic_and_diastolic_bp_calculator(xs, ys, peak, n) ==
    LET s == ScanEnvelope(xs, ys, peak, n)
    IN  IF EstimateFailed(s.systolic_buffer, s.diastolic_buffer)
        THEN [systolic_bloodpressure |-> mmHg(-1),
              diastolic_bloodpressure |-> mmHg(-1),
              systolic_char_ratio |-> s.min_systolic_ordinate_error,
              diastolic_char_ratio |-> s.min_diastolic_ordinate_error]
        ELSE [systolic_bloodpressure |-> xs[s.systolic_buffer],
              diastolic_bloodpressure |-> xs[s.diastolic_buffer],
              systolic_char_ratio |-> s.min_systolic_ordinate_error,
              diastolic_char_ratio |-> s.min_diastolic_ordinate_error]

----------------------------------------------------------------------------
(* The Pulse Estimator: measure_pulse(), lines 133-157.                    *)

\* Variant of ReliableInterval: no interval is too long.
ReliableInterval_NoUpper(p2p) == p2p * UPPER_PULSE_RANGE > 60000

\* Line 142: pulse_lower_value = (60.0 / 150) * 1000 < p2p and
\* p2p < pulse_upper_value = (60.0 / 35) * 1000, with p2p a whole number of ms.
ReliableInterval(p2p) ==
    p2p * UPPER_PULSE_RANGE > 60000 /\ p2p * LOWER_PULSE_RANGE < 60000

\* The loop of lines 140-146 over i = 1 .. n-1: the sum of the reliable
\* intervals and their number.
RECURSIVE SumIntervals(_, _)
SumIntervals(times, n) ==
    IF n <= 1
    THEN [pulse |-> 0, pulse_count |-> 0]
    ELSE LET s == SumIntervals(times, n - 1)
             pulse_time_p2p == times[n - 1] - times[n - 2]
         IN  IF ReliableInterval(pulse_time_p2p)
             THEN [pulse |-> s.pulse + pulse_time_p2p,
                   pulse_count |-> s.pulse_count + 1]
             ELSE s

\* Variant of measure_pulse: without the else branch of line 151, pulse
\* keeps its initial 0.0 when no interval is reliable.
measure_pulse_NoSentinel(times, n) ==
    LET s == SumIntervals(times, n)
    IN  IF s.pulse_count # 0
        THEN [pulse_value |-> [num |-> 60000 * s.pulse_count, den |-> s.pulse],
              pulse_data_count |-> s.pulse_count]
        ELSE [pulse_value |-> [num |-> 0, den |-> 1],
              pulse_data_count |-> s.pulse_count]

\* Lines 147-156.  pulse_value is the exact fraction num / den:
\* (1000 / (pulse / pulse_count)) * 60 = 60000 * pulse_count / pulse.
measure_pulse(times, n) ==
    LET s == SumIntervals(times, n)
    IN  IF s.pulse_count # 0
        THEN [pulse_value |-> [num |-> 60000 * s.pulse_count, den |-> s.pulse],
              pulse_data_count |-> s.pulse_count]
        ELSE [pulse_value |-> [num |-> -1, den |-> 1],
              pulse_data_count |-> s.pulse_count]

----------------------------------------------------------------------------
(* State: the globals of lines 53-75, the locals that live across the      *)
(* steps of measure_pressure() and main(), and the two program positions.  *)

VARIABLES
    pc,                          \* position of main()
    mp,                          \* position inside measure_pressure()
    calib_i,                     \* i of auto_caliberate()
    default_pressure,            \* default_pressure of auto_caliberate()
    caliberated_MIN_OUT,
    current_pressure,
    release_rate,
    buffer_queue,
    omwegraph_absicissa_buffer,
    omwegraph_ordinate_buffer,
    omwe_buffer_time,
    pressure_diff,
    previous_pressure_diff,
    peak_pressure_diff,
    Mean_Arterial_Pressure,
    iteration,
    omwebuffer_pointer,
    omwetime_buffer_pointer,
    active_recordflag,
    end_record,
    active_flag,                 \* LED2
    max_pressure,                \* LED3
    flux_warning,                \* LED4
    pulse_count_timer,           \* elapsed milliseconds, 0 until started
    pressure_data,               \* locals of measure_pressure()
    pressure_value,
    normalized_pressure,
    bp,                          \* locals of main()
    pulse

omweVars == <<omwegraph_absicissa_buffer, omwegraph_ordinate_buffer,
              omwe_buffer_time, omwebuffer_pointer, omwetime_buffer_pointer>>

trackerVars == <<pressure_diff, previous_pressure_diff>>

mapVars == <<peak_pressure_diff, Mean_Arterial_Pressure>>

windowVars == <<buffer_queue, iteration>>

sampleVars == <<current_pressure, pressure_data, pressure_value,
                normalized_pressure>>

flagVars == <<active_recordflag, active_flag, end_record, max_pressure>>

gradientVars == <<release_rate, flux_warning>>

calibVars == <<calib_i, default_pressure, caliberated_MIN_OUT>>

resultVars == <<bp, pulse>>

vars == <<pc, mp, omweVars, trackerVars, mapVars, windowVars, sampleVars,
          flagVars, gradientVars, calibVars, resultVars, pulse_count_timer>>

OmweIndex == 0 .. (OmweCapacity - 1)

\* A zero-initialised array of OmweCapacity doubles.
EmptyOmwe == [i \in OmweIndex |-> 0]

\* Static initialisation (lines 57-75) and entry into main() up to the call
\* of auto_caliberate() at line 91.
Init ==
    /\ pc = "calibrate"
    /\ mp = "idle"
    /\ calib_i = 0
    /\ default_pressure = 0
    /\ caliberated_MIN_OUT = 0
    /\ current_pressure = 0
    /\ release_rate = 0
    /\ buffer_queue = [i \in QueueIndex |-> 0]
    /\ omwegraph_absicissa_buffer = EmptyOmwe
    /\ omwegraph_ordinate_buffer = EmptyOmwe
    /\ omwe_buffer_time = EmptyOmwe
    /\ pressure_diff = 0
    /\ previous_pressure_diff = 0
    /\ peak_pressure_diff = 0
    /\ Mean_Arterial_Pressure = 0
    /\ iteration = 0
    /\ omwebuffer_pointer = 0
    /\ omwetime_buffer_pointer = 0
    /\ active_recordflag = FALSE
    /\ end_record = FALSE
    /\ active_flag = FALSE
    /\ max_pressure = FALSE
    /\ flux_warning = FALSE
    /\ pulse_count_timer = 0
    /\ pressure_data = 0
    /\ pressure_value = 0
    /\ normalized_pressure = 0
    /\ bp = [systolic_bloodpressure |-> 0, diastolic_bloodpressure |-> 0,
             systolic_char_ratio |-> 0, diastolic_char_ratio |-> 0]
    /\ pulse = [pulse_value |-> [num |-> 0, den |-> 1], pulse_data_count |-> 0]

----------------------------------------------------------------------------
(* measure_pressure(), lines 291-350, in two steps: up to line 339 and     *)
(* from line 340 on.  The ticker's interrupt can arrive between the two.   *)

\* The caller is about to call measure_pressure(): the loop of line 238 or
\* the loop of line 97.
CallerSamples ==
    \/ pc = "calibrate" /\ calib_i < CalibrationSamples
    \/ pc = "run" /\ LoopContinues(end_record)

\* The sensor words the environment can deliver at this point.
Readings == IF pc = "calibrate" THEN CalibData ELSE SensorData

\* pulse_count_timer.read_ms() after the wait of line 309; the timer runs
\* from line 96 to line 101.
TimerAfter(ms) == IF pc = "run" THEN pulse_count_timer + ms ELSE pulse_count_timer

\* Lines 292-339.  data is the sensor word, button the level of USER_BUTTON.
MeasureSample(data, button) ==
    /\ mp = "idle"
    /\ CallerSamples
    /\ iteration < MaxSamples
    /\ LET active == active_recordflag \/ button
           now == TimerAfter(SENSOR_WAIT_MS)
           pv == PressureOf(data, caliberated_MIN_OUT)
           np == NormalizedForSample(buffer_queue, iteration, pv)
           gate == RecordGate(active, pv, np)
           diff == FAbs(FSub(pv, np))
           maximum == /\ gate
                      /\ InOmweBand(np)
                      /\ PassedMaximum(diff, previous_pressure_diff)
           stamp == /\ maximum
                    /\ StoreTimestamp(now, omwe_buffer_time, omwetime_buffer_pointer)
           \* A store at an index past the end of an OMWE array.
           outOfBounds == \/ maximum /\ omwebuffer_pointer >= OmweCapacity
                          \/ stamp /\ omwetime_buffer_pointer >= OmweCapacity
       IN  /\ active_recordflag' = active
           /\ active_flag' = active
           /\ pressure_data' = data
           /\ pressure_value' = pv
           /\ current_pressure' = pv
           /\ normalized_pressure' = np
           /\ pulse_count_timer' = now
           /\ pressure_diff' = IF gate THEN diff ELSE pressure_diff
           /\ previous_pressure_diff' = IF gate THEN diff ELSE previous_pressure_diff
           /\ omwetime_buffer_pointer' =
                  IF stamp THEN omwetime_buffer_pointer + 1
                  ELSE omwetime_buffer_pointer
           /\ omwebuffer_pointer' =
                  IF maximum THEN omwebuffer_pointer + 1 ELSE omwebuffer_pointer
           /\ omwe_buffer_time' =
                  IF stamp /\ omwetime_buffer_pointer < OmweCapacity
                  THEN [omwe_buffer_time EXCEPT ![omwetime_buffer_pointer] = now]
                  ELSE omwe_buffer_time
           /\ omwegraph_ordinate_buffer' =
                  IF maximum /\ omwebuffer_pointer < OmweCapacity
                  THEN [omwegraph_ordinate_buffer EXCEPT
                            ![omwebuffer_pointer] = previous_pressure_diff]
                  ELSE omwegraph_ordinate_buffer
           /\ omwegraph_absicissa_buffer' =
                  IF maximum /\ omwebuffer_pointer < OmweCapacity
                  THEN [omwegraph_absicissa_buffer EXCEPT
                            ![omwebuffer_pointer] = np]
                  ELSE omwegraph_absicissa_buffer
           \* A store past the end of an array is undefined behaviour:
           \* nothing is known of the program from there on.
           /\ pc' = IF outOfBounds THEN "undefined" ELSE pc
           /\ mp' = IF outOfBounds THEN mp ELSE "store"
    /\ UNCHANGED <<mapVars, windowVars, end_record, max_pressure, gradientVars,
                   calibVars, resultVars>>

\* Lines 340-349 and the return to the caller: line 239 in auto_caliberate()
\* (the reading is added up), line 99 in main() (wait_us, wait ms long).
MeasureStore(wait) ==
    /\ mp = "store"
    /\ pc \in {"calibrate", "run"}
    /\ buffer_queue' = WriteQueue(buffer_queue, iteration, pressure_value)
    /\ iteration' = iteration + 1
    /\ IF NewMAP(pressure_diff, peak_pressure_diff,
                 NormalizedForMAP(buffer_queue, iteration, pressure_value))
       THEN /\ peak_pressure_diff' = pressure_diff
            /\ Mean_Arterial_Pressure' = calculate_normalized_pressure(buffer_queue')
       ELSE UNCHANGED mapVars
    /\ max_pressure' = IF OverPressure(normalized_pressure) THEN TRUE ELSE max_pressure
    /\ end_record' = IF EndCondition(active_flag, normalized_pressure)
                     THEN TRUE ELSE end_record
    /\ mp' = "idle"
    /\ IF pc = "calibrate"
       THEN /\ default_pressure' = default_pressure + pressure_data
            /\ calib_i' = calib_i + 1
            /\ UNCHANGED pulse_count_timer
       ELSE /\ pulse_count_timer' = pulse_count_timer + wait
            /\ UNCHANGED <<default_pressure, calib_i>>
    /\ UNCHANGED <<pc, omweVars, trackerVars, sampleVars, active_recordflag,
                   active_flag, gradientVars, caliberated_MIN_OUT, resultVars>>

\* Lines 242-243 of auto_caliberate() and lines 92-96 of main(): the offset
\* is set, the ticker attached and the timers started.
CalibrationDone ==
    /\ pc = "calibrate"
    /\ mp = "idle"
    /\ calib_i = CalibrationSamples
    /\ caliberated_MIN_OUT' = default_pressure \div CalibrationSamples
    /\ pc' = "run"
    /\ UNCHANGED <<mp, omweVars, trackerVars, mapVars, windowVars, sampleVars,
                   flagVars, gradientVars, calib_i, default_pressure,
                   resultVars, pulse_count_timer>>

\* check_pressure_gradient_ISR(), lines 270-281, run by the ticker attached
\* at line 93.
check_pressure_gradient_ISR ==
    /\ pc \in {"run", "pulse"}
    /\ IF GradientArmed(iteration)
       THEN /\ release_rate' =
                   FSub(calculate_normalized_pressure(buffer_queue), current_pressure)
            /\ flux_warning' = RateTooHigh(release_rate')
       ELSE UNCHANGED gradientVars
    /\ UNCHANGED <<pc, mp, omweVars, trackerVars, mapVars, windowVars,
                   sampleVars, flagVars, calibVars, resultVars, pulse_count_timer>>

\* Lines 97 and 101-103: the loop ends and the blood pressure is estimated.
EstimateBloodPressure ==
    /\ pc = "run"
    /\ mp = "idle"
    /\ ~LoopContinues(end_record)
    /\ bp' = Systolic_and_diastolic_bp_calculator(
                 omwegraph_absicissa_buffer, omwegraph_ordinate_buffer,
                 peak_pressure_diff, omwebuffer_pointer)
    /\ pc' = "pulse"
    /\ UNCHANGED <<mp, omweVars, trackerVars, mapVars, windowVars, sampleVars,
                   flagVars, gradientVars, calibVars, pulse, pulse_count_timer>>

\* Line 116.
EstimatePulse ==
    /\ pc = "pulse"
    /\ pulse' = measure_pulse(omwe_buffer_time, omwetime_buffer_pointer)
    /\ pc' = "done"
    /\ UNCHANGED <<mp, omweVars, trackerVars, mapVars, windowVars, sampleVars,
                   flagVars, gradientVars, calibVars, bp, pulse_count_timer>>

Next ==
    \/ \E data \in Readings, button \in BOOLEAN : MeasureSample(data, button)
    \/ \E wait \in LoopWaits : MeasureStore(wait)
    \/ CalibrationDone
    \/ check_pressure_gradient_ISR
    \/ EstimateBloodPressure
    \/ EstimatePulse

Spec == Init /\ [][Next]_vars

\* A deflation that the fairness of main() is checked on: the sensor words
\* of a cuff at about 1 mmHg and at about 100 mmHg.
DeflationData == {OUTPUT_MIN + 11185, OUTPUT_MIN + 1118481}

DeflationReadings == IF pc = "calibrate" THEN CalibData ELSE DeflationData

\* The steps of main() and of the functions it calls.  The processor runs
\* main() whenever no interrupt is being served, so a step of main() that
\* stays possible is eventually taken.
MainStep ==
    \/ \E data \in DeflationReadings, button \in BOOLEAN : MeasureSample(data, button)
    \/ \E wait \in LoopWaits : MeasureStore(wait)
    \/ CalibrationDone
    \/ EstimateBloodPressure
    \/ EstimatePulse

NextFair ==
    \/ MainStep
    \/ check_pressure_gradient_ISR

FairSpec == Init /\ [][NextFair]_vars /\ WF_vars(MainStep)

\* A cuff held at about 120 and 126 mmHg, above the band of the MAP Tracker
\* and inside the band of the envelope, and released to about 1 mmHg.
PlateauData == {OUTPUT_MIN + 11185, OUTPUT_MIN + 1342177, OUTPUT_MIN + 1409286}

PlateauReadings == IF pc = "calibrate" THEN CalibData ELSE PlateauData

NextPlateau ==
    \/ \E data \in PlateauReadings, button \in BOOLEAN : MeasureSample(data, button)
    \/ \E wait \in LoopWaits : MeasureStore(wait)
    \/ CalibrationDone
    \/ check_pressure_gradient_ISR
    \/ EstimateBloodPressure
    \/ EstimatePulse

SpecPlateau == Init /\ [][NextPlateau]_vars

\* A cuff held at the upper edge of the envelope band and released to about
\* 1 mmHg: four readings of the second word and one of the first have a
\* mean of exactly 160.0 mmHg.
BandEdgeData == {OUTPUT_MIN + 11185, OUTPUT_MIN + 1789568, OUTPUT_MIN + 1789570}

BandEdgeReadings == IF pc = "calibrate" THEN CalibData ELSE BandEdgeData

NextBandEdge ==
    \/ \E data \in BandEdgeReadings, button \in BOOLEAN : MeasureSample(data, button)
    \/ \E wait \in LoopWaits : MeasureStore(wait)
    \/ CalibrationDone
    \/ check_pressure_gradient_ISR
    \/ EstimateBloodPressure
    \/ EstimatePulse

SpecBandEdge == Init /\ [][NextBandEdge]_vars

----------------------------------------------------------------------------
(* The Systolic/Diastolic Estimator on its own: the loop of main() has     *)
(* ended and the estimator is applied to an envelope drawn from the sets   *)
(* below.                                                                  *)

\* Peak amplitudes handed to the estimator (model units; 30000000 is about
\* 8.94 mmHg), and the ordinates tried with them: 0.59 and 0.76 of that
\* peak, two ordinates equally far from 0.59 of it, and one far from both.
EstimatorPeaks == {0, 30000000}

EstimatorOrdinates == {17700000, 22800000, 16700000, 18700000, 5000000}

\* Abscissas: one inside (50,90), one inside neither band, two inside
\* (100,200).
EstimatorAbscissas == {mmHg(70), mmHg(95), mmHg(120), mmHg(150)}

\* The arrays that hold n entries followed by zeros.
OmweArrays(values, n) ==
    {a \in [OmweIndex -> values \cup {0}] :
        \A i \in OmweIndex : (i >= n) <=> (a[i] = 0)}

InitEstimator ==
    /\ pc = "run"
    /\ mp = "idle"
    /\ end_record = TRUE
    /\ active_recordflag = TRUE
    /\ active_flag = TRUE
    /\ omwebuffer_pointer \in 0 .. OmweCapacity
    /\ omwegraph_absicissa_buffer \in OmweArrays(EstimatorAbscissas, omwebuffer_pointer)
    /\ omwegraph_ordinate_buffer \in OmweArrays(EstimatorOrdinates, omwebuffer_pointer)
    /\ peak_pressure_diff \in EstimatorPeaks
    /\ calib_i = CalibrationSamples
    /\ default_pressure = CalibrationSamples * OUTPUT_MIN
    /\ caliberated_MIN_OUT = OUTPUT_MIN
    /\ current_pressure = 0
    /\ release_rate = 0
    /\ buffer_queue = [i \in QueueIndex |-> 0]
    /\ omwe_buffer_time = EmptyOmwe
    /\ pressure_diff = 0
    /\ previous_pressure_diff = 0
    /\ Mean_Arterial_Pressure = 0
    /\ iteration = CalibrationSamples
    /\ omwetime_buffer_pointer = 0
    /\ max_pressure = FALSE
    /\ flux_warning = FALSE
    /\ pulse_count_timer = 0
    /\ pressure_data = 0
    /\ pressure_value = 0
    /\ normalized_pressure = 0
    /\ bp = [systolic_bloodpressure |-> 0, diastolic_bloodpressure |-> 0,
             systolic_char_ratio |-> 0, diastolic_char_ratio |-> 0]
    /\ pulse = [pulse_value |-> [num |-> 0, den |-> 1], pulse_data_count |-> 0]

NextEstimator == EstimateBloodPressure \/ EstimatePulse

SpecEstimator == InitEstimator /\ [][NextEstimator]_vars

----------------------------------------------------------------------------
(* The Pulse Estimator on its own: the blood pressure has been estimated   *)
(* and measure_pulse() is applied to timestamps drawn from the sets below. *)

\* The timer reading stored as first timestamp, in milliseconds.
PulseFirstStamps == {10, 260}

\* Gaps between stored timestamps: each is more than 500 ms (lines 326-329).
\* 60000 / 35 is about 1714.3 ms, so 1500 is a reliable interval and 1750
\* and 2000 are not.
PulseGaps == {510, 800, 1500, 1750, 2000}

\* The timestamp arrays that hold n entries followed by zeros.
RECURSIVE TimeArrays(_)
TimeArrays(n) ==
    IF n = 0 THEN {EmptyOmwe}
    ELSE IF n = 1 THEN {[EmptyOmwe EXCEPT ![0] = t] : t \in PulseFirstStamps}
    ELSE {[a EXCEPT ![n - 1] = a[n - 2] + g] :
              a \in TimeArrays(n - 1), g \in PulseGaps}

InitPulse ==
    /\ pc = "pulse"
    /\ mp = "idle"
    /\ end_record = TRUE
    /\ active_recordflag = TRUE
    /\ active_flag = TRUE
    /\ omwetime_buffer_pointer \in 0 .. OmweCapacity
    /\ omwe_buffer_time \in TimeArrays(omwetime_buffer_pointer)
    /\ omwebuffer_pointer = omwetime_buffer_pointer
    /\ omwegraph_absicissa_buffer =
           [i \in OmweIndex |-> IF i < omwebuffer_pointer THEN mmHg(95) ELSE 0]
    /\ omwegraph_ordinate_buffer =
           [i \in OmweIndex |-> IF i < omwebuffer_pointer THEN 5000000 ELSE 0]
    /\ peak_pressure_diff = 0
    /\ calib_i = CalibrationSamples
    /\ default_pressure = CalibrationSamples * OUTPUT_MIN
    /\ caliberated_MIN_OUT = OUTPUT_MIN
    /\ current_pressure = 0
    /\ release_rate = 0
    /\ buffer_queue = [i \in QueueIndex |-> 0]
    /\ pressure_diff = 0
    /\ previous_pressure_diff = 0
    /\ Mean_Arterial_Pressure = 0
    /\ iteration = CalibrationSamples
    /\ max_pressure = FALSE
    /\ flux_warning = FALSE
    /\ pulse_count_timer =
           IF omwetime_buffer_pointer = 0 THEN 0
           ELSE omwe_buffer_time[omwetime_buffer_pointer - 1]
    /\ pressure_data = 0
    /\ pressure_value = 0
    /\ normalized_pressure = 0
    /\ bp = Systolic_and_diastolic_bp_calculator(
                omwegraph_absicissa_buffer, omwegraph_ordinate_buffer,
                peak_pressure_diff, omwebuffer_pointer)
    /\ pulse = [pulse_value |-> [num |-> 0, den |-> 1], pulse_data_count |-> 0]

NextPulse == EstimatePulse

SpecPulse == InitPulse /\ [][NextPulse]_vars

----------------------------------------------------------------------------
(* Properties.                                                             *)

\* The entries of the OMWE arrays written so far.
Recorded(n) == {i \in OmweIndex : i < n}

\* C1: every recorded envelope point has its abscissa within [70.0, 160.0]
\* mmHg, so no sample whose normalized pressure is outside that band has
\* appended a point.
C1_AbscissaInBand ==
    \A i \in Recorded(omwebuffer_pointer) :
        /\ omwegraph_absicissa_buffer[i] >= mmHg(MIN_OMWE_THRESH)
        /\ omwegraph_absicissa_buffer[i] <= mmHg(MAX_OMWE_THRESH)

\* Two envelope points have been recorded.
C1_Witness == omwebuffer_pointer >= 2 /\ pc # "undefined"

\* C2: the recorded peak timestamps are strictly increasing and any two
\* consecutive ones are at least 500 ms apart.
C2_TimestampsSpaced ==
    \A i \in Recorded(omwetime_buffer_pointer) :
        i > 0 =>
            /\ omwe_buffer_time[i] > omwe_buffer_time[i - 1]
            /\ omwe_buffer_time[i] - omwe_buffer_time[i - 1] >= 500

\* Two timestamps have been recorded, and a maximum found in between was
\* given none.
C2_Witness ==
    /\ omwetime_buffer_pointer >= 2
    /\ omwebuffer_pointer > omwetime_buffer_pointer
    /\ pc # "undefined"

\* The estimator has returned.
Estimated == pc \in {"pulse", "done"}

\* The recorded entries whose abscissa is in (100,200), and in (50,90).
SystolicCandidates ==
    {i \in Recorded(omwebuffer_pointer) : InSystolicBand(omwegraph_absicissa_buffer[i])}

DiastolicCandidates ==
    {i \in Recorded(omwebuffer_pointer) : InDiastolicBand(omwegraph_absicissa_buffer[i])}

\* Distance of entry i's ordinate from 0.59 and from 0.76 of the peak
\* amplitude (times ERROR_SCALE).
SystolicError(i) ==
    OrdinateError(omwegraph_ordinate_buffer[i], SYSTOLIC_LOWER_CHAR_RATIO,
                  SYSTOLIC_UPPER_CHAR_RATIO, peak_pressure_diff)

DiastolicError(i) ==
    OrdinateError(omwegraph_ordinate_buffer[i], DIASTOLIC_LOWER_CHAR_RATIO,
                  DIASTOLIC_UPPER_CHAR_RATIO, peak_pressure_diff)

\* The earliest of the entries of C that are closest to the target.
ClosestSystolic ==
    CHOOSE i \in SystolicCandidates :
        \A j \in SystolicCandidates :
            \/ SystolicError(i) < SystolicError(j)
            \/ SystolicError(i) = SystolicError(j) /\ i <= j

ClosestDiastolic ==
    CHOOSE i \in DiastolicCandidates :
        \A j \in DiastolicCandidates :
            \/ DiastolicError(i) < DiastolicError(j)
            \/ DiastolicError(i) = DiastolicError(j) /\ i <= j

\* The result is made of the closest entry of each band.
ClosestReturned ==
    /\ bp.systolic_bloodpressure = omwegraph_absicissa_buffer[ClosestSystolic]
    /\ bp.diastolic_bloodpressure = omwegraph_absicissa_buffer[ClosestDiastolic]
    /\ bp.systolic_char_ratio = SystolicError(ClosestSystolic)
    /\ bp.diastolic_char_ratio = DiastolicError(ClosestDiastolic)

C4_SentinelForBoth ==
    Estimated =>
        /\ (\/ omwebuffer_pointer = 0
            \/ SystolicCandidates = {}
            \/ DiastolicCandidates = {})
               => /\ bp.systolic_bloodpressure = mmHg(-1)
                  /\ bp.diastolic_bloodpressure = mmHg(-1)
        /\ (bp.systolic_bloodpressure < 0) <=> (bp.diastolic_bloodpressure < 0)

\* Only the diastolic search failed: a systolic entry was within reach of
\* its target, and both pressures are the sentinel all the same.
C4_Witness ==
    /\ Estimated
    /\ DiastolicCandidates = {}
    /\ \E i \in SystolicCandidates : SystolicError(i) < InitialOrdinateError
    /\ bp.systolic_bloodpressure = mmHg(-1)
    /\ bp.diastolic_bloodpressure = mmHg(-1)

C6_TerminationFlag ==
    [][/\ (iteration' = iteration + 1) =>
              (end_record' <=>
                   \/ end_record
                   \/ active_recordflag /\ FLt(normalized_pressure, mmHg(5)))
       /\ (iteration' = iteration) => (end_record' = end_record)
       /\ end_record' => active_recordflag'
       /\ end_record => end_record']_vars

\* A sample of the session has set the termination flag.
C6_Witness == end_record /\ pc = "run" /\ active_recordflag

\* C7: no more than OmweCapacity envelope points and no more than
\* OmweCapacity timestamps are ever stored.
C7_WithinCapacity ==
    /\ omwebuffer_pointer <= OmweCapacity
    /\ omwetime_buffer_pointer <= OmweCapacity

\* C8: the Normalizer never takes the mean of zero non-zero slots, so no
\* value it returned is 0.0 / 0.0.
C8_NoZeroCountMean == normalized_pressure # NaN /\ release_rate # NaN

\* C9 as stated: the normalized pressure a sample works with is the mean of
\* the window after the sample has been written into it.
C9_NormalizedAfterWrite ==
    [][(iteration' = iteration + 1) =>
           normalized_pressure' = calculate_normalized_pressure(buffer_queue')]_vars

\* C9 as amended: the normalized pressure that the Envelope Tracker, the
\* over-pressure indicator and the termination check of a sample work with
\* is the mean of the window before the sample is written into it; only the
\* MAP Tracker works with the mean of the window after the write.
C9_NormalizedBeforeWrite ==
    [][/\ (omwebuffer_pointer' # omwebuffer_pointer /\ pc' # "undefined") =>
              omwegraph_absicissa_buffer'[omwebuffer_pointer] =
                  calculate_normalized_pressure(buffer_queue)
       /\ (iteration' = iteration + 1) =>
              /\ normalized_pressure' = calculate_normalized_pressure(buffer_queue)
              /\ (max_pressure' # max_pressure) =>
                     FGt(calculate_normalized_pressure(buffer_queue), mmHg(200))
              /\ (end_record' # end_record) =>
                     FLt(calculate_normalized_pressure(buffer_queue), mmHg(5))
              /\ (peak_pressure_diff' # peak_pressure_diff) =>
                     Mean_Arterial_Pressure' =
                         calculate_normalized_pressure(buffer_queue')]_vars

\* A sample has been taken whose normalized pressure differs from the mean
\* of the window that holds the sample, and that sample recorded an
\* envelope point.
C9_Witness ==
    /\ mp = "idle"
    /\ iteration > CalibrationSamples
    /\ omwebuffer_pointer > 0
    /\ normalized_pressure # NaN
    /\ normalized_pressure # calculate_normalized_pressure(buffer_queue)
    /\ normalized_pressure = omwegraph_absicissa_buffer[omwebuffer_pointer - 1]

\* The smallest and the largest of the non-zero samples of the window.
MinNonZero(q) == CHOOSE x \in {q[i] : i \in NonZeroSlots(q)} :
                     \A i \in NonZeroSlots(q) : x <= q[i]

MaxNonZero(q) == CHOOSE x \in {q[i] : i \in NonZeroSlots(q)} :
                     \A i \in NonZeroSlots(q) : x >= q[i]

C11_MAPMonotonic ==
    /\ [](peak_pressure_diff > 0 =>
              /\ FGt(Mean_Arterial_Pressure, mmHg(MIN_OMWE_THRESH))
              /\ FLt(Mean_Arterial_Pressure, mmHg(110)))
    /\ [][/\ peak_pressure_diff' >= peak_pressure_diff
          /\ (peak_pressure_diff' # peak_pressure_diff) =>
                 /\ iteration' = iteration + 1
                 /\ FGt(calculate_normalized_pressure(buffer_queue'),
                        mmHg(MIN_OMWE_THRESH))
                 /\ FLt(calculate_normalized_pressure(buffer_queue'), mmHg(110))
                 /\ Mean_Arterial_Pressure' =
                        calculate_normalized_pressure(buffer_queue')
          /\ (peak_pressure_diff' = peak_pressure_diff) =>
                 Mean_Arterial_Pressure' = Mean_Arterial_Pressure]_vars

\* The MAP Tracker has found a new best amplitude during the session.
C11_Witness ==
    /\ pc = "run"
    /\ peak_pressure_diff > 0
    /\ Mean_Arterial_Pressure = calculate_normalized_pressure(buffer_queue)

\* The envelope points stored so far.
StoredPoints ==
    {i \in OmweIndex : i < omwebuffer_pointer}

C13_WarningFollowsRate ==
    /\ [](flux_warning <=> FGt(release_rate, mmHg(4)))
    /\ [][(gradientVars' # gradientVars) =>
              /\ iteration > 5
              /\ release_rate' =
                     FSub(calculate_normalized_pressure(buffer_queue),
                          current_pressure)
              /\ flux_warning' <=> FGt(release_rate', mmHg(4))]_vars

\* An evaluation found a release rate above 4.0 and raised the warning.
C13_Witness ==
    /\ iteration > 5
    /\ flux_warning
    /\ FGt(release_rate, mmHg(4))

\* The Pulse Estimator has returned.
PulseEstimated == pc = "done"

\* The recorded timestamps.
StoredStamps == {i \in OmweIndex : i < omwetime_buffer_pointer}

\* C14: with fewer than 2 timestamps the Pulse Estimator returns count 0 and
\* pulse value -1, and for every timestamp sequence the count is 0 exactly
\* when the pulse value is -1.
C14_PulseSentinel ==
    PulseEstimated =>
        /\ (omwetime_buffer_pointer < 2) =>
               /\ pulse.pulse_data_count = 0
               /\ pulse.pulse_value = [num |-> -1, den |-> 1]
        /\ (pulse.pulse_data_count = 0) <=>
               (pulse.pulse_value.num = -pulse.pulse_value.den)

\* The estimator has returned the sentinel for two or more timestamps, none
\* of whose intervals is reliable.
C14_Witness ==
    /\ PulseEstimated
    /\ omwetime_buffer_pointer >= 2
    /\ pulse.pulse_data_count = 0
    /\ pulse.pulse_value = [num |-> -1, den |-> 1]

\* The consecutive pairs of timestamps whose interval lies within
\* [60000/150, 60000/35] ms, named by the index of their second timestamp.
KeptIntervals ==
    {i \in StoredStamps :
        /\ i >= 1
        /\ (omwe_buffer_time[i] - omwe_buffer_time[i - 1]) * UPPER_PULSE_RANGE >= 60000
        /\ (omwe_buffer_time[i] - omwe_buffer_time[i - 1]) * LOWER_PULSE_RANGE <= 60000}

KeptTotal ==
    SumOver([i \in KeptIntervals |-> omwe_buffer_time[i] - omwe_buffer_time[i - 1]],
            KeptIntervals)

\* C15: the count of the Pulse Estimator is the number of consecutive-pair
\* intervals within [60000/150, 60000/35] ms and, when it is not zero, the
\* pulse value is 60000 divided by the mean of those intervals.
C15_PulseFromKeptIntervals ==
    PulseEstimated =>
        /\ pulse.pulse_data_count = Cardinality(KeptIntervals)
        /\ (pulse.pulse_data_count # 0) =>
               pulse.pulse_value.num * KeptTotal =
                   60000 * Cardinality(KeptIntervals) * pulse.pulse_value.den

\* Timestamps 800 ms apart with a longer, unreliable interval among them
\* have given 75 bpm from one interval.
C15_Witness ==
    /\ PulseEstimated
    /\ omwetime_buffer_pointer = OmweCapacity
    /\ pulse.pulse_data_count = 1
    /\ pulse.pulse_value.num = 75 * pulse.pulse_value.den
    /\ KeptIntervals # {i \in StoredStamps : i >= 1}

\* A step that runs lines 292-339 of measure_pressure() for one sample.
SampleStep ==
    /\ mp = "idle"
    /\ mp' = "store" \/ (pc # "undefined" /\ pc' = "undefined")

\* |raw - normalized| of the sample that step takes.
SampleAmplitude == FAbs(FSub(pressure_value', normalized_pressure'))

\* What a sample that appends an envelope point stores, and what every
\* other step leaves alone.
AppendedPoint ==
    /\ omwebuffer_pointer' \in {omwebuffer_pointer, omwebuffer_pointer + 1}
    /\ (omwebuffer_pointer' # omwebuffer_pointer) => SampleStep
    /\ (omwebuffer_pointer' # omwebuffer_pointer /\ omwebuffer_pointer < OmweCapacity) =>
           /\ omwegraph_absicissa_buffer' =
                  [omwegraph_absicissa_buffer EXCEPT
                       ![omwebuffer_pointer] = normalized_pressure']
           /\ omwegraph_ordinate_buffer' =
                  [omwegraph_ordinate_buffer EXCEPT
                       ![omwebuffer_pointer] = previous_pressure_diff]
    /\ (omwebuffer_pointer' = omwebuffer_pointer) =>
           UNCHANGED <<omwegraph_absicissa_buffer, omwegraph_ordinate_buffer>>

\* C16 as stated: a sample appends an envelope point exactly when recording
\* is active, the amplitude is below 12.0, the normalized pressure is within
\* [70.0, 160.0] and the amplitude is below the previous amplitude; the
\* point is (this sample's normalized pressure, the previous amplitude) and
\* a sample appends one point at most.
C16_AppendInClosedBand ==
    [][/\ AppendedPoint
       /\ SampleStep =>
              ((omwebuffer_pointer' = omwebuffer_pointer + 1) <=>
                   /\ active_recordflag'
                   /\ FLt(SampleAmplitude, mmHg(12))
                   /\ normalized_pressure' >= mmHg(MIN_OMWE_THRESH)
                   /\ normalized_pressure' <= mmHg(MAX_OMWE_THRESH)
                   /\ SampleAmplitude < previous_pressure_diff)]_vars

\* C16 as amended: the same, with the normalized pressure strictly inside
\* (70.0, 160.0).
C16_AppendInOpenBand ==
    [][/\ AppendedPoint
       /\ SampleStep =>
              ((omwebuffer_pointer' = omwebuffer_pointer + 1) <=>
                   /\ active_recordflag'
                   /\ FLt(SampleAmplitude, mmHg(12))
                   /\ FGt(normalized_pressure', mmHg(MIN_OMWE_THRESH))
                   /\ FLt(normalized_pressure', mmHg(MAX_OMWE_THRESH))
                   /\ SampleAmplitude < previous_pressure_diff)]_vars

\* A sample of the session has just appended an envelope point: its
\* abscissa is the sample's normalized pressure and its ordinate is above
\* the sample's own amplitude.
C16_Witness ==
    /\ pc = "run"
    /\ mp = "store"
    /\ omwebuffer_pointer > 0
    /\ omwegraph_absicissa_buffer[omwebuffer_pointer - 1] = normalized_pressure
    /\ omwegraph_ordinate_buffer[omwebuffer_pointer - 1] > previous_pressure_diff
    /\ previous_pressure_diff = FAbs(FSub(pressure_value, normalized_pressure))

\* C17: the previous amplitude changes only on a sample taken while
\* recording is active and whose amplitude is below 12.0; it then becomes
\* that sample's amplitude, whether or not the normalized pressure is inside
\* the band of the envelope; every other step leaves it unchanged.
C17_PreviousAmplitudeFrame ==
    [][previous_pressure_diff' =
           IF SampleStep /\ active_recordflag' /\ FLt(SampleAmplitude, mmHg(12))
           THEN SampleAmplitude
           ELSE previous_pressure_diff]_vars

\* A recording sample whose normalized pressure is outside the band of the
\* envelope has just set the previous amplitude.
C17_Witness ==
    /\ pc = "run"
    /\ mp = "store"
    /\ active_recordflag
    /\ previous_pressure_diff > 0
    /\ previous_pressure_diff = FAbs(FSub(pressure_value, normalized_pressure))
    /\ ~InOmweBand(normalized_pressure)

\* C18: the recording flag, once set, is never cleared by any step, and
\* while it is clear no envelope point and no timestamp is recorded.
C18_RecordingFlagMonotonic ==
    /\ [](~active_recordflag =>
              omwebuffer_pointer = 0 /\ omwetime_buffer_pointer = 0)
    /\ [][active_recordflag => active_recordflag']_vars

\* A sample of the session was taken with the flag clear, a viable reading
\* and a normalized pressure inside the band of the envelope, and nothing
\* is recorded.
C18_Witness ==
    /\ pc = "run"
    /\ mp = "store"
    /\ ~active_recordflag
    /\ FLt(FAbs(FSub(pressure_value, normalized_pressure)), mmHg(12))
    /\ InOmweBand(normalized_pressure)
    /\ omwebuffer_pointer = 0
    /\ omwetime_buffer_pointer = 0

\* C19: an invocation of the Gradient Safety Monitor changes nothing but
\* the release rate and the warning: the window, the sample count, the
\* envelope and the timestamps, the amplitudes, the MAP amplitude and
\* pressure and the flags are left as they are; with fewer than 6 samples
\* taken it changes nothing at all.  No other step changes the release rate
\* or the warning.
C19_MonitorFrame ==
    [][/\ check_pressure_gradient_ISR =>
              /\ UNCHANGED <<windowVars, omweVars, trackerVars, mapVars,
                             active_recordflag, active_flag, end_record,
                             max_pressure, current_pressure>>
              /\ (iteration < 6) => UNCHANGED vars
       /\ (gradientVars' # gradientVars) =>
              UNCHANGED <<pc, mp, windowVars, omweVars, trackerVars, mapVars,
                          sampleVars, flagVars, calibVars, resultVars,
                          pulse_count_timer>>]_vars

\* The monitor was invoked in the middle of a sample, between the reading
\* and its entry into the window, and computed a release rate.
C19_Witness ==
    /\ pc = "run"
    /\ mp = "store"
    /\ iteration > 5
    /\ release_rate # 0
    /\ release_rate # NaN
    /\ release_rate = FSub(calculate_normalized_pressure(buffer_queue),
                           current_pressure)
    /\ current_pressure # buffer_queue[(iteration - 1) % QUEUE_SIZE]

\* C20: calibration only establishes the offset, the integer mean of the
\* readings: when it finishes the sample count is 0, the window is all
\* zero, no envelope point and no timestamp is stored, the MAP amplitude and
\* the previous amplitude are 0 and the recording and termination flags are
\* clear.
C20_CalibrationLeavesInitialState ==
    [][(pc = "calibrate" /\ pc' = "run") =>
           /\ caliberated_MIN_OUT' = default_pressure \div CalibrationSamples
           /\ iteration' = 0
           /\ buffer_queue' = [i \in QueueIndex |-> 0]
           /\ omwebuffer_pointer' = 0
           /\ omwetime_buffer_pointer' = 0
           /\ peak_pressure_diff' = 0
           /\ previous_pressure_diff' = 0
           /\ ~active_recordflag'
           /\ ~end_record']_vars

\* C21: whenever the Gradient Safety Monitor computes a release rate, the
\* current pressure it subtracts is the sample most recently written into
\* the window it takes the normalized pressure from.
C21_MonitorReadsConsistentPair ==
    [][(gradientVars' # gradientVars) =>
           current_pressure = buffer_queue[(iteration - 1) % QUEUE_SIZE]]_vars

\* What the Pulse Estimator returns for the timestamps recorded so far.
ReportablePulse == measure_pulse(omwe_buffer_time, omwetime_buffer_pointer)

====
